---- MODULE Spec2Model ----
(***************************************************************************)
(* Verification model of the entropic_void crate.                          *)
(*                                                                         *)
(*   - entropic_void/src/lattice.rs   : Lattice (new, index, coord,        *)
(*                                      in_bounds, neighbors_6)            *)
(*   - entropic_void/src/transport.rs : exchange_exact,                    *)
(*                                      distribute_to_neighbors            *)
(*   - entropic_void/src/lib.rs       : generate_lattice, simulate_tick    *)
(*   - entropic_void/src/energy.rs, redistribution.rs, evolution.rs :      *)
(*                                      project_energy, set_oscillation,   *)
(*                                      Simulation::step, evolve_until     *)
(*   - entropy/src/main.rs            : App (handle_key, update,           *)
(*                                      step_simulation)                   *)
(*                                                                         *)
(* Machine integers are scaled: usize has UsizeBits bits and u128 has      *)
(* twice as many, as 64 and 128 do.  Energies (f64) are exact integers in  *)
(* a fixed-point unit.                                                     *)
(***************************************************************************)
EXTENDS Integers, Sequences, FiniteSets, TLC

----------------------------------------------------------------------------
(* Bounds of the model *)

UsizeBits == 6
MaxDim == 2
MaxIndexArg == 12

(* types.rs constants *)
VARS == 5
FORCES == 4

USIZE_MAX == 2^UsizeBits - 1
U128_MAX == 2^(2 * UsizeBits) - 1

(* Option<T> *)
None == [tag |-> "None"]
Some(v) == [tag |-> "Some", val |-> v]
IsSome(o) == o.tag = "Some"

(* u128 / usize checked arithmetic *)
checked_mul(a, b) == IF a * b > U128_MAX THEN None ELSE Some(a * b)
checked_add(a, b) == IF a + b > U128_MAX THEN None ELSE Some(a + b)
checked_div(a, b) == IF b = 0 THEN None ELSE Some(a \div b)
checked_rem(a, b) == IF b = 0 THEN None ELSE Some(a % b)
usize_checked_add(a, b) == IF a + b > USIZE_MAX THEN None ELSE Some(a + b)
usize_checked_sub(a, b) == IF a - b < 0 THEN None ELSE Some(a - b)
as_usize(v) == v % (USIZE_MAX + 1)

(* LatticeCoord *)
LatticeCoord(x, y, z) == [x |-> x, y |-> y, z |-> z]

(* CellState { e: [[0.0; FORCES]; VARS] } *)
ZeroCell == [e |-> [i \in 0..(VARS - 1) |-> [f \in 0..(FORCES - 1) |-> 0]]]

----------------------------------------------------------------------------
(* lattice.rs *)

(* variant: wrapping instead of checked multiplication *)
cell_count_size_wrapping(size) ==
    Some((size[1] * size[2] * size[3]) % (U128_MAX + 1))

cell_count_size(size) ==
    LET p1 == checked_mul(size[1], size[2]) IN
    IF ~IsSome(p1) THEN None ELSE checked_mul(p1.val, size[3])

new(size) ==
    LET cell_count == cell_count_size(size) IN
    IF ~IsSome(cell_count) THEN None
    ELSE Some([size |-> size, cells |-> [k \in 1..cell_count.val |-> ZeroCell]])

size(self) == self.size

index(self, c) ==
    LET cell_count == cell_count_size(self.size) IN
    IF ~IsSome(cell_count) THEN None ELSE
    LET sq == checked_mul(cell_count.val, cell_count.val) IN
    IF ~IsSome(sq) THEN None ELSE
    LET layer == checked_mul(sq.val, c.z) IN
    IF ~IsSome(layer) THEN None ELSE
    LET row == checked_mul(cell_count.val, c.y) IN
    IF ~IsSome(row) THEN None ELSE
    LET s == checked_add(c.x, row.val) IN
    IF ~IsSome(s) THEN None ELSE checked_add(s.val, layer.val)

coord(self, idx) ==
    LET n == cell_count_size(self.size) IN
    IF ~IsSome(n) THEN None ELSE
    LET n2 == checked_mul(n.val, n.val) IN
    IF ~IsSome(n2) THEN None ELSE
    LET x == checked_div(idx, n2.val) IN
    IF ~IsSome(x) THEN None ELSE
    LET r == checked_rem(idx, n2.val) IN
    IF ~IsSome(r) THEN None ELSE
    LET y == checked_div(r.val, n.val) IN
    IF ~IsSome(y) THEN None ELSE
    LET z == checked_rem(r.val, n.val) IN
    IF ~IsSome(z) THEN None ELSE
    Some(LatticeCoord(as_usize(x.val), as_usize(y.val), as_usize(z.val)))

in_bounds(self, c) ==
    c.x < self.size[1] /\ c.y < self.size[2] /\ c.z < self.size[3]

neighbors_6(self, c) ==
    IF ~in_bounds(self, c) THEN None ELSE
    LET xp == usize_checked_add(c.x, 1) IN
    IF ~IsSome(xp) THEN None ELSE
    LET xm == usize_checked_sub(c.x, 1) IN
    IF ~IsSome(xm) THEN None ELSE
    LET yp == usize_checked_add(c.y, 1) IN
    IF ~IsSome(yp) THEN None ELSE
    LET ym == usize_checked_sub(c.y, 1) IN
    IF ~IsSome(ym) THEN None ELSE
    LET zp == usize_checked_add(c.z, 1) IN
    IF ~IsSome(zp) THEN None ELSE
    LET zm == usize_checked_sub(c.z, 1) IN
    IF ~IsSome(zm) THEN None ELSE
    Some(<< LatticeCoord(xp.val, c.y, c.z), LatticeCoord(xm.val, c.y, c.z),
            LatticeCoord(c.x, yp.val, c.z), LatticeCoord(c.x, ym.val, c.z),
            LatticeCoord(c.x, c.y, zp.val), LatticeCoord(c.x, c.y, zm.val) >>)

----------------------------------------------------------------------------
(* transport.rs *)

(* todo!() : the call panics before it touches its arguments *)
Panic == [tag |-> "Panic"]

(* exchange_exact(cell_a, cell_b, var_i, force_f, coupling, dt):
   the cells after the call and the outcome of the call *)
exchange_exact(cell_a, cell_b, var_i, force_f, coupling, dt) ==
    [cell_a |-> cell_a, cell_b |-> cell_b, ret |-> Panic]

(* distribute_to_neighbors(lattice, coupling_matrix, dt):
   the lattice after the call, the exchange_exact calls it made, the outcome *)
distribute_to_neighbors(self, coupling_matrix, dt) ==
    [lattice |-> self, exchanged |-> << >>, ret |-> Panic]

----------------------------------------------------------------------------
(* Inputs of the lattice operations *)

Dims == 0..MaxDim
(* sizes whose product does not fit u128 *)
BigSizes == { << USIZE_MAX, USIZE_MAX, USIZE_MAX >>, << USIZE_MAX, USIZE_MAX, 2 >>,
              << 2, USIZE_MAX, USIZE_MAX >>, << USIZE_MAX, 3, USIZE_MAX >> }
Sizes == (Dims \X Dims \X Dims) \cup BigSizes
CoordArgs == { LatticeCoord(x, y, z) : x \in Dims, y \in Dims, z \in Dims }
IndexArgs == 0..MaxIndexArg
Energies == {0, 3, 10}
Couplings == {0, 1, 25}
Dts == {10}
Channel(v, f, en) ==
    [e |-> [i \in 0..(VARS - 1) |-> [g \in 0..(FORCES - 1) |->
              IF i = v /\ g = f THEN en ELSE 0]]]
UniformCoupling(c) == [i \in 0..(VARS - 1) |-> [f \in 0..(FORCES - 1) |-> c]]

----------------------------------------------------------------------------
(* State *)

VARIABLES
    lattice,     \* Option<Lattice> held by the caller (lattice.rs)
    call,        \* the last call: operation, arguments, returned value
    pair,        \* the two cells handed to exchange_exact, after the call
    exchanges,   \* exchange_exact calls made by distribute_to_neighbors
    panicked     \* a todo!() was reached: the program is gone

lvars == << lattice, call, pair, exchanges, panicked >>

LInit ==
    /\ lattice = None
    /\ call = [op |-> "start"]
    /\ pair = << ZeroCell, ZeroCell >>
    /\ exchanges = << >>
    /\ panicked = FALSE

New(sz) ==
    /\ ~panicked
    /\ ~IsSome(lattice)
    /\ lattice' = new(sz)
    /\ call' = [op |-> "new", arg |-> sz, ret |-> new(sz)]
    /\ UNCHANGED << pair, exchanges, panicked >>

Index(c) ==
    /\ ~panicked
    /\ IsSome(lattice)
    /\ call' = [op |-> "index", arg |-> c, ret |-> index(lattice.val, c)]
    /\ UNCHANGED << lattice, pair, exchanges, panicked >>

Coord(i) ==
    /\ ~panicked
    /\ IsSome(lattice)
    /\ call' = [op |-> "coord", arg |-> i, ret |-> coord(lattice.val, i)]
    /\ UNCHANGED << lattice, pair, exchanges, panicked >>

Neighbors6(c) ==
    /\ ~panicked
    /\ IsSome(lattice)
    /\ call' = [op |-> "neighbors_6", arg |-> c, ret |-> neighbors_6(lattice.val, c)]
    /\ UNCHANGED << lattice, pair, exchanges, panicked >>

ExchangeExact(ea, eb, var_i, force_f, coupling, dt) ==
    LET a == Channel(var_i, force_f, ea)
        b == Channel(var_i, force_f, eb)
        r == exchange_exact(a, b, var_i, force_f, coupling, dt)
    IN  /\ ~panicked
        /\ pair' = << r.cell_a, r.cell_b >>
        /\ call' = [op |-> "exchange_exact",
                    arg |-> [cell_a |-> a, cell_b |-> b, var_i |-> var_i,
                             force_f |-> force_f, coupling |-> coupling, dt |-> dt],
                    ret |-> r.ret]
        /\ panicked' = (r.ret = Panic)
        /\ UNCHANGED << lattice, exchanges >>

DistributeToNeighbors(coupling, dt) ==
    LET r == distribute_to_neighbors(lattice.val, UniformCoupling(coupling), dt)
    IN  /\ ~panicked
        /\ IsSome(lattice)
        /\ lattice' = Some(r.lattice)
        /\ exchanges' = r.exchanged
        /\ call' = [op |-> "distribute_to_neighbors",
                    arg |-> [coupling |-> coupling, dt |-> dt],
                    ret |-> r.ret]
        /\ panicked' = (r.ret = Panic)
        /\ UNCHANGED pair

----------------------------------------------------------------------------
(* lib.rs : types *)

MaxTicks == 2

(* Direction::ALL, by position; offset() *)
DirectionALL == << "PosX", "NegX", "PosY", "NegY", "PosZ", "NegZ" >>
offset(d) ==
    CASE d = "PosX" -> << 1, 0, 0 >>
      [] d = "NegX" -> << -1, 0, 0 >>
      [] d = "PosY" -> << 0, 1, 0 >>
      [] d = "NegY" -> << 0, -1, 0 >>
      [] d = "PosZ" -> << 0, 0, 1 >>
      [] d = "NegZ" -> << 0, 0, -1 >>

(* f64 arithmetic on fixed-point energies: v * (num/den) *)
Scale(v, num, den) == (v * num) \div den

(* FluxTensor::zero *)
FluxZero == [i \in 0..5 |-> 0]

(* Lattice::index of lib.rs *)
lib_index(self, x, y, z) == x + y * self.size[1] + z * self.size[1] * self.size[2]

(* variant: only the signs are tested *)
lib_in_bounds_signs_only(self, x, y, z) ==
    x >= 0 /\ y >= 0 /\ z >= 0

(* Lattice::in_bounds of lib.rs, on signed coordinates *)
lib_in_bounds(self, x, y, z) ==
    /\ x >= 0 /\ y >= 0 /\ z >= 0
    /\ x < self.size[1] /\ y < self.size[2] /\ z < self.size[3]

----------------------------------------------------------------------------
(* lib.rs : initialization; the generator's draws are the shape arguments *)

Kinds == << "Light", "Matter", "Neutrino", "OppositeMatter", "OppositeLight" >>

Interactions(kind) ==
    CASE kind = "Light" -> << "Electromagnetic" >>
      [] kind = "Matter" -> << "Strong", "Weak", "Gravitational" >>
      [] kind = "Neutrino" -> << "Weak", "Gravitational" >>
      [] kind = "OppositeMatter" -> << "Gravitational" >>
      [] kind = "OppositeLight" -> << "Expansion" >>

RECURSIVE SeqSum(_)
SeqSum(s) == IF s = << >> THEN 0 ELSE Head(s) + SeqSum(Tail(s))

(* random_partition: v drawn, then v[i] / sum(v) * total *)
random_partition(total, n, v) ==
    [i \in 1..n |-> Scale(total, v[i], SeqSum(v))]

init_group(kind, energy, v) ==
    LET interactions == Interactions(kind)
        parts == random_partition(energy, Len(interactions), v)
    IN  [kind |-> kind, total_energy |-> energy,
         subgroups |-> [i \in 1..Len(interactions) |->
                          [interaction |-> interactions[i],
                           packets |-> << [energy |-> parts[i]] >>]]]

(* the draws of a group's partition are the first of the cell's draws *)
init_cell(energy, v) ==
    LET parts == random_partition(energy, Len(Kinds), v)
    IN  [total_energy |-> energy,
         groups |-> [k \in 1..Len(Kinds) |->
                       init_group(Kinds[k], parts[k],
                                  [i \in 1..Len(Interactions(Kinds[k])) |-> v[i]])]]

generate_lattice(sz, total_energy, draws) ==
    LET n == sz[1] * sz[2] * sz[3]
        per == IF n = 0 THEN 0 ELSE total_energy \div n
    IN  [size |-> sz, cells |-> [k \in 1..n |-> init_cell(per, draws[k])]]

----------------------------------------------------------------------------
(* lib.rs : force tensors *)

(* cell.groups.iter().find(|g| g.kind == kind) *)
find_group(cell, kind) ==
    LET hits == { k \in DOMAIN cell.groups : cell.groups[k].kind = kind }
    IN  IF hits = {} THEN None
        ELSE Some(cell.groups[CHOOSE k \in hits : \A j \in hits : k <= j])

electromagnetic_tensor(cell) ==
    LET g == find_group(cell, "Light") IN
    IF ~IsSome(g) THEN FluxZero
    ELSE LET e == Scale(g.val.total_energy, 5, 100)
         IN  [i \in 0..5 |-> IF i <= 3 THEN e \div 4 ELSE 0]

(* neighbors: the in-bounds directions, each with its cell *)
gravitational_tensor(cell, neighbors) ==
    [i \in 0..5 |->
        IF /\ i \in DOMAIN neighbors
           /\ neighbors[i].total_energy > cell.total_energy
        THEN Scale(neighbors[i].total_energy - cell.total_energy, 1, 100)
        ELSE 0]

expansion_tensor(cell) ==
    LET g == find_group(cell, "OppositeLight") IN
    IF ~IsSome(g) THEN FluxZero
    ELSE LET e == Scale(g.val.total_energy, 3, 100)
         IN  [i \in 0..5 |-> e \div 6]

----------------------------------------------------------------------------
(* lib.rs : intra-cell forces *)

(* the energies of all packets of a group, subgroup after subgroup *)
packet_energies(g) ==
    LET from[i \in 1..(Len(g.subgroups) + 1)] ==
            IF i > Len(g.subgroups) THEN << >>
            ELSE [j \in 1..Len(g.subgroups[i].packets) |->
                     g.subgroups[i].packets[j].energy] \o from[i + 1]
    IN  from[1]

(* strong_force: every packet of the Matter group gets the mean energy *)
strong_force(cell) ==
    LET hits == { k \in DOMAIN cell.groups : cell.groups[k].kind = "Matter" }
    IN  IF hits = {} THEN cell
        ELSE LET k == CHOOSE h \in hits : \A j \in hits : h <= j
                 energies == packet_energies(cell.groups[k])
                 total == SeqSum(energies)
                 count == IF Len(energies) > 1 THEN Len(energies) ELSE 1
                 per == total \div count
             IN  [cell EXCEPT !.groups[k].subgroups =
                    [i \in DOMAIN @ |->
                        [@[i] EXCEPT !.packets =
                            [j \in DOMAIN @ |-> [energy |-> per]]]]]

(* the Weak subgroups of a cell, as << group, subgroup >>, and the rank of one
   of them in the order weak_force visits them *)
weak_subgroups(cell) ==
    { p \in UNION { { << k, i >> : i \in DOMAIN cell.groups[k].subgroups } :
                      k \in DOMAIN cell.groups } :
        cell.groups[p[1]].subgroups[p[2]].interaction = "Weak" }
weak_rank(cell, k, i) ==
    Cardinality({ p \in weak_subgroups(cell) :
                    p[1] < k \/ (p[1] = k /\ p[2] <= i) })

(* weak_force: the packets of each Weak subgroup are multiplied by a factor
   drawn for that subgroup; fs holds the draws of rng.random_range(0.9..1.1)
   in the order they are made, in hundredths *)
weak_force(cell, fs) ==
    [cell EXCEPT !.groups =
        [k \in DOMAIN @ |->
            [@[k] EXCEPT !.subgroups =
                [i \in DOMAIN @ |->
                    IF @[i].interaction = "Weak"
                    THEN [@[i] EXCEPT !.packets =
                            [j \in DOMAIN @ |->
                                [energy |-> Scale(@[j].energy,
                                                  fs[weak_rank(cell, k, i)], 100)]]]
                    ELSE @[i]]]]]

----------------------------------------------------------------------------
(* lib.rs : simulate_tick *)

U64_MAX == USIZE_MAX

(* the cell at index idx (0-based, as in the code) *)
CellAt(self, idx) == self.cells[idx + 1]

(* x, y, z of a cell index *)
tick_xyz(self, idx) ==
    << idx % self.size[1],
       (idx \div self.size[1]) % self.size[2],
       idx \div (self.size[1] * self.size[2]) >>

(* the in-bounds directions of a cell (by position in ALL), with their cells *)
tick_neighbors(self, idx) ==
    LET p == tick_xyz(self, idx)
        At(i) == << p[1] + offset(DirectionALL[i + 1])[1],
                    p[2] + offset(DirectionALL[i + 1])[2],
                    p[3] + offset(DirectionALL[i + 1])[3] >>
        inb == { i \in 0..5 : lib_in_bounds(self, At(i)[1], At(i)[2], At(i)[3]) }
    IN  [i \in inb |-> CellAt(self, lib_index(self, At(i)[1], At(i)[2], At(i)[3]))]

(* the indices at which the closure reads lattice.cells for cell idx: its own
   and those Lattice::index gives for the directions that pass in_bounds *)
closure_indices(self, idx) ==
    LET p == tick_xyz(self, idx)
        offsets == { offset(DirectionALL[i]) : i \in DOMAIN DirectionALL }
        at == { << p[1] + o[1], p[2] + o[2], p[3] + o[3] >> : o \in offsets }
    IN  { idx } \cup
        { lib_index(self, c[1], c[2], c[3]) :
            c \in { q \in at : lib_in_bounds(self, q[1], q[2], q[3]) } }

(* &lattice.cells[i] panics when i is not below the number of cells *)
index_panics(self, idx) ==
    \E i \in closure_indices(self, idx) : i \notin 0..(Len(self.cells) - 1)

(* variant: the emitting cell is not debited *)
flux_entries_no_debit(self, idx, t, i) ==
    LET p == tick_xyz(self, idx)
        o == offset(DirectionALL[i + 1])
        e == t[i]
    IN  IF e > 0 /\ lib_in_bounds(self, p[1] + o[1], p[2] + o[2], p[3] + o[3])
        THEN << << lib_index(self, p[1] + o[1], p[2] + o[2], p[3] + o[3]), e >> >>
        ELSE << >>

(* the entries one tensor component pushes: (nidx, e) and (idx, -e) *)
flux_entries(self, idx, t, i) ==
    LET p == tick_xyz(self, idx)
        o == offset(DirectionALL[i + 1])
        nx == p[1] + o[1]
        ny == p[2] + o[2]
        nz == p[3] + o[3]
        e == t[i]
    IN  IF e > 0 /\ lib_in_bounds(self, nx, ny, nz)
        THEN << << lib_index(self, nx, ny, nz), e >>, << idx, -e >> >>
        ELSE << >>

tensor_entries(self, idx, t) ==
    flux_entries(self, idx, t, 0) \o flux_entries(self, idx, t, 1) \o
    flux_entries(self, idx, t, 2) \o flux_entries(self, idx, t, 3) \o
    flux_entries(self, idx, t, 4) \o flux_entries(self, idx, t, 5)

(* the closure of the parallel map: the flux list of one cell *)
cell_flux(self, idx) ==
    LET cell == CellAt(self, idx)
        neighbors == tick_neighbors(self, idx)
    IN  tensor_entries(self, idx, electromagnetic_tensor(cell)) \o
        tensor_entries(self, idx, gravitational_tensor(cell, neighbors)) \o
        tensor_entries(self, idx, expansion_tensor(cell)) \o
        << << idx, 0 >> >>

(* Step 2: deltas[idx] += delta, list by list in cell order *)
RECURSIVE flatten_fluxes(_, _, _)
flatten_fluxes(fluxes, k, n) ==
    IF k >= n THEN << >> ELSE fluxes[k].val \o flatten_fluxes(fluxes, k + 1, n)

RECURSIVE accumulate(_, _)
accumulate(deltas, entries) ==
    IF entries = << >> THEN deltas
    ELSE IF Head(entries)[1] \notin DOMAIN deltas THEN Panic
    ELSE accumulate([deltas EXCEPT ![Head(entries)[1]] = @ + Head(entries)[2]],
                    Tail(entries))

(* Step 3: c.total_energy += d *)
apply_deltas(self, deltas) ==
    [self EXCEPT !.cells =
        [k \in DOMAIN self.cells |->
            [self.cells[k] EXCEPT !.total_energy = @ + deltas[k - 1]]]]

(* variant: a worker reads the lattice with the flux lists already collected
   applied to it *)
worker_view_updated(self, fluxes) ==
    LET n == Len(self.cells)
        done[k \in 0..n] ==
            IF k = n THEN << >>
            ELSE (IF IsSome(fluxes[k]) THEN fluxes[k].val ELSE << >>) \o done[k + 1]
    IN  apply_deltas(self, accumulate([k \in 0..(n - 1) |-> 0], done[0]))

(* the lattice a worker of the parallel map reads: the shared borrow of the
   lattice, which nothing writes before Step 3 *)
worker_view(self, fluxes) == self

(* the clone of the cell, after the intra-cell forces were applied to it *)
cell_clone(self, idx, fs) == weak_force(strong_force(CellAt(self, idx)), fs)

(* variant: the clone replaces the cell of the lattice *)
closure_cell_replaced(cell, clone) == clone

(* the cell of the lattice once the closure has run for it: the closure holds
   a shared borrow of the lattice, and its clone is dropped when it returns *)
closure_cell(cell, clone) == cell

(* simulate_tick(lattice, seed) run as a whole: the outcomes it can have, the
   lattice afterwards or a panic.  The clones of the closure leave no trace.  seed + idx overflowing u64 panics in a
   build with overflow checks and wraps in one without. *)
simulate_tick(self, seed) ==
    LET n == Len(self.cells)
        fluxes == [idx \in 0..(n - 1) |-> Some(cell_flux(self, idx))]
        deltas == accumulate([k \in 0..(n - 1) |-> 0], flatten_fluxes(fluxes, 0, n))
    IN  IF \E idx \in 0..(n - 1) : index_panics(self, idx) THEN { Panic }
        ELSE (IF deltas = Panic THEN { Panic } ELSE { apply_deltas(self, deltas) })
             \cup (IF \E idx \in 0..(n - 1) : seed + idx > U64_MAX
                   THEN { Panic } ELSE {})

(* sum of cell.total_energy over all cells *)
RECURSIVE energy_sum(_, _)
energy_sum(cells, k) ==
    IF k > Len(cells) THEN 0 ELSE cells[k].total_energy + energy_sum(cells, k + 1)
global_energy(self) == energy_sum(self.cells, 1)

----------------------------------------------------------------------------
(* Inputs of the tick *)

TickSizes == { << 3, 1, 1 >>, << 2, 2, 1 >>, << 1, 2, 2 >> }
TotalEnergies == { 0, 4800000 }
Draws == { << 4, 4, 4, 4, 4 >>, << 5, 4, 4, 4, 3 >>, << 3, 4, 4, 4, 5 >> }
Seeds == { 0, 1, U64_MAX }
(* draws of rng.random_range(0.9..1.1), in hundredths: near either end *)
WeakFactors == { 90, 109 }

VARIABLES
    tl,      \* the Lattice of lib.rs
    tick,    \* simulate_tick in progress: phase, seed, the flux list of each cell
    hist     \* ticks completed, energy at generation; of the last tick begun:
             \* energy and lattice at entry, seed, order the workers finished in

tvars == << tl, tick, hist >>

Idle == [phase |-> "idle", seed |-> 0, fluxes |-> << >>, order |-> << >>]

History(self) ==
    [ticks |-> 0, initial |-> global_energy(self), before |-> global_energy(self),
     pre |-> self, seed |-> 0, order |-> << >>]

TInit ==
    /\ \E sz \in TickSizes, te \in TotalEnergies :
         \E draws \in [1..(sz[1] * sz[2] * sz[3]) -> Draws] :
            tl = generate_lattice(sz, te, draws)
    /\ tick = Idle
    /\ hist = History(tl)

(* simulate_tick(lattice, seed) is entered *)
TickStart(seed) ==
    /\ tick.phase = "idle"
    /\ hist.ticks < MaxTicks
    /\ tick' = [phase |-> "flux", seed |-> seed,
                fluxes |-> [idx \in 0..(Len(tl.cells) - 1) |-> None],
                order |-> << >>]
    /\ hist' = [hist EXCEPT !.before = global_energy(tl), !.pre = tl,
                            !.seed = seed, !.order = << >>]
    /\ UNCHANGED tl

(* one worker runs the closure for cell idx *)
ComputeFlux(idx) ==
    /\ tick.phase = "flux"
    /\ idx \in DOMAIN tick.fluxes
    /\ tick.fluxes[idx] = None
    /\ IF index_panics(worker_view(tl, tick.fluxes), idx)
       THEN /\ tick' = [tick EXCEPT !.phase = "panicked"]
            /\ UNCHANGED tl
       ELSE /\ tick' = [tick EXCEPT
                  !.fluxes[idx] = Some(cell_flux(worker_view(tl, tick.fluxes), idx)),
                  !.order = Append(@, idx)]
            /\ \E fs \in [1..Cardinality(weak_subgroups(CellAt(tl, idx))) -> WeakFactors] :
                  LET clone == cell_clone(worker_view(tl, tick.fluxes), idx, fs)
                  IN  tl' = [tl EXCEPT !.cells[idx + 1] = closure_cell(@, clone)]
    /\ UNCHANGED hist

(* seed + idx overflows u64: a build with overflow checks panics there,
   a build without them wraps and goes on (ComputeFlux) *)
SeedOverflowPanic(idx) ==
    /\ tick.phase = "flux"
    /\ idx \in DOMAIN tick.fluxes
    /\ tick.fluxes[idx] = None
    /\ tick.seed + idx > U64_MAX
    /\ tick' = [tick EXCEPT !.phase = "panicked"]
    /\ UNCHANGED << tl, hist >>

(* Steps 2 and 3, once every flux list is collected *)
ApplyDeltas ==
    /\ tick.phase = "flux"
    /\ \A idx \in DOMAIN tick.fluxes : IsSome(tick.fluxes[idx])
    /\ LET n == Len(tl.cells)
           deltas == accumulate([k \in 0..(n - 1) |-> 0],
                                flatten_fluxes(tick.fluxes, 0, n))
       IN  IF deltas = Panic
           THEN /\ tick' = [tick EXCEPT !.phase = "panicked"]
                /\ UNCHANGED << tl, hist >>
           ELSE /\ tl' = apply_deltas(tl, deltas)
                /\ tick' = Idle
                /\ hist' = [hist EXCEPT !.ticks = @ + 1, !.order = tick.order]

(* simulate_tick from entry to return, for long runs *)
MaxRunTicks == 200
RunSizes == { << 2, 1, 1 >>, << 3, 1, 1 >> }

RInit ==
    /\ \E sz \in RunSizes, te \in TotalEnergies :
         \E draws \in [1..(sz[1] * sz[2] * sz[3]) -> Draws] :
            tl = generate_lattice(sz, te, draws)
    /\ tick = Idle
    /\ hist = History(tl)

SimulateTick(seed) ==
    /\ tick.phase = "idle"
    /\ hist.ticks < MaxRunTicks
    /\ \E out \in simulate_tick(tl, seed) :
          IF out = Panic
          THEN /\ tick' = [tick EXCEPT !.phase = "panicked"]
               /\ hist' = [hist EXCEPT !.before = global_energy(tl), !.pre = tl,
                                       !.seed = seed]
               /\ UNCHANGED tl
          ELSE /\ tl' = out
               /\ hist' = [hist EXCEPT !.ticks = @ + 1, !.before = global_energy(tl),
                                       !.pre = tl, !.seed = seed]
               /\ UNCHANGED tick

----------------------------------------------------------------------------
(* types.rs, energy.rs, redistribution.rs, evolution.rs *)

N_FLATTENED == VARS * FORCES

(* Result<(), &'static str> *)
Ok == [tag |-> "Ok"]
Err(e) == [tag |-> "Err", val |-> e]

(* #[derive(Default)] RedistributionMatrix : a = [[0.0; N]; N] *)
RedistributionMatrixDefault ==
    [a |-> [i \in 0..(N_FLATTENED - 1) |-> [j \in 0..(N_FLATTENED - 1) |-> 0]]]

(* #[derive(Default)] ConstraintSet : every variable Free, nothing locked *)
ConstraintSetDefault ==
    [var_constraints |-> [i \in 0..(VARS - 1) |-> [tag |-> "Free"]],
     expr_constraints |-> [i \in 0..(VARS - 1) |->
                              [locked |-> FALSE,
                               force_pct |-> [f \in 0..(FORCES - 1) |-> 0]]]]

(* project_energy(cell, constraints): todo!() *)
project_energy(c, constraints) == [cell |-> c, ret |-> Panic]

(* redistribution::new_zero(): todo!() *)
new_zero == Panic

(* set_oscillation(matrix, from, to, rate): todo!() *)
set_oscillation(matrix, from, to, rate) == [matrix |-> matrix, ret |-> Panic]

(* Simulation { lattice, redistribution, coupling, constraints, time, step } *)
Simulation(l, r, coupling, constraints, t, n) ==
    [lattice |-> l, redistribution |-> r, coupling |-> coupling,
     constraints |-> constraints, time |-> t, step |-> n]

(* Simulation::step(dt, use_adaptive): todo!(); trace lists the operations the
   call performed on the cells, in order *)
step(self, dt, use_adaptive) == [sim |-> self, trace |-> << >>, ret |-> Panic]

(* Simulation::step_redistribution(dt): todo!() *)
step_redistribution(self, dt) == [sim |-> self, trace |-> << >>, ret |-> Panic]

(* Simulation::step_transport(dt): todo!() *)
step_transport(self, dt) == [sim |-> self, trace |-> << >>, ret |-> Panic]

(* Simulation::evolve_until(t_end, dt, callback): todo!(); trace lists the
   steps made and the callback invocations, in order *)
evolve_until(self, t_end, dt) == [sim |-> self, trace |-> << >>, ret |-> Panic]

(* Inputs *)
SimSizes == { << 1, 1, 1 >>, << 2, 1, 1 >>, << 2, 2, 2 >> }
TEnds == { 0, 30 }
Rates == { 0, 1, 7 }
FixedTotals == { 0, 8 }
ConstraintSets ==
    { ConstraintSetDefault }
    \cup { [ConstraintSetDefault EXCEPT
              !.var_constraints[0] = [tag |-> "FixedTotal", val |-> t]] :
           t \in FixedTotals }
    \cup { [ConstraintSetDefault EXCEPT
              !.expr_constraints[0] =
                 [locked |-> TRUE,
                  force_pct |-> [f \in 0..(FORCES - 1) |-> 25]]] }

VARIABLES
    sim,        \* the Simulation
    pcell,      \* the CellState handed to project_energy, after the call
    rmatrix,    \* the RedistributionMatrix handed to set_oscillation
    scall,      \* the last call on them: operation, arguments, returned value
    strace,     \* what that call did, in order
    spanicked   \* a todo!() was reached: the program is gone

svars == << sim, pcell, rmatrix, scall, strace, spanicked >>

SIdle ==
    /\ pcell = ZeroCell
    /\ rmatrix = RedistributionMatrixDefault
    /\ scall = [op |-> "start"]
    /\ strace = << >>
    /\ spanicked = FALSE

SInit ==
    /\ \E sz \in SimSizes :
          sim = Simulation(new(sz).val, RedistributionMatrixDefault,
                           UniformCoupling(0), ConstraintSetDefault, 0, 0)
    /\ SIdle

ProjectEnergy(v, f, en, constraints) ==
    LET c == Channel(v, f, en)
        r == project_energy(c, constraints)
    IN  /\ ~spanicked
        /\ pcell' = r.cell
        /\ scall' = [op |-> "project_energy",
                     arg |-> [cell |-> c, constraints |-> constraints],
                     ret |-> r.ret]
        /\ spanicked' = (r.ret = Panic)
        /\ UNCHANGED << sim, rmatrix, strace >>

NewZero ==
    /\ ~spanicked
    /\ scall' = [op |-> "new_zero", ret |-> new_zero]
    /\ rmatrix' = IF new_zero = Panic THEN rmatrix ELSE new_zero
    /\ spanicked' = (new_zero = Panic)
    /\ UNCHANGED << sim, pcell, strace >>

SetOscillation(from, to, rate) ==
    LET r == set_oscillation(rmatrix, from, to, rate)
    IN  /\ ~spanicked
        /\ rmatrix' = r.matrix
        /\ scall' = [op |-> "set_oscillation",
                     arg |-> [from |-> from, to |-> to, rate |-> rate],
                     ret |-> r.ret]
        /\ spanicked' = (r.ret = Panic)
        /\ UNCHANGED << sim, pcell, strace >>

Step(dt, use_adaptive) ==
    LET r == step(sim, dt, use_adaptive)
    IN  /\ ~spanicked
        /\ sim' = r.sim
        /\ strace' = r.trace
        /\ scall' = [op |-> "step", before |-> sim,
                     arg |-> [dt |-> dt, use_adaptive |-> use_adaptive],
                     ret |-> r.ret]
        /\ spanicked' = (r.ret = Panic)
        /\ UNCHANGED << pcell, rmatrix >>

StepRedistribution(dt) ==
    LET r == step_redistribution(sim, dt)
    IN  /\ ~spanicked
        /\ sim' = r.sim
        /\ strace' = r.trace
        /\ scall' = [op |-> "step_redistribution", before |-> sim,
                     arg |-> [dt |-> dt], ret |-> r.ret]
        /\ spanicked' = (r.ret = Panic)
        /\ UNCHANGED << pcell, rmatrix >>

StepTransport(dt) ==
    LET r == step_transport(sim, dt)
    IN  /\ ~spanicked
        /\ sim' = r.sim
        /\ strace' = r.trace
        /\ scall' = [op |-> "step_transport", before |-> sim,
                     arg |-> [dt |-> dt], ret |-> r.ret]
        /\ spanicked' = (r.ret = Panic)
        /\ UNCHANGED << pcell, rmatrix >>

EvolveUntil(t_end, dt) ==
    LET r == evolve_until(sim, t_end, dt)
    IN  /\ ~spanicked
        /\ sim' = r.sim
        /\ strace' = r.trace
        /\ scall' = [op |-> "evolve_until", before |-> sim,
                     arg |-> [t_end |-> t_end, dt |-> dt], ret |-> r.ret]
        /\ spanicked' = (r.ret = Panic)
        /\ UNCHANGED << pcell, rmatrix >>

----------------------------------------------------------------------------
(* entropy/src/main.rs : the dashboard.  Durations and dt are in units of
   10 microseconds; the lattice side and max_history are scaled. *)

AppDim == 2
MaxHistory == 2
MaxDtPresses == 1
MaxAppSteps == MaxHistory + 1

DT_NEW == 1000
DT_MIN == 100
DT_MAX == 10000
(* a returned value; a returned unit *)
Returned(v) == [tag |-> "Returned", val |-> v]
Unit == [tag |-> "Unit"]

Max(a, b) == IF a >= b THEN a ELSE b
Min(a, b) == IF a <= b THEN a ELSE b

(* Simulation::step as its comment documents it, for the callers in main.rs:
   "Updates: self.time += dt; self.step += 1; Returns: Ok or error"; the body
   itself is todo!().  The set of outcomes a call can have. *)
step_documented(self, dt, use_adaptive) ==
    { [sim |-> [self EXCEPT !.time = @ + dt, !.step = @ + 1], ret |-> Ok],
      [sim |-> self, ret |-> Err("step failed")],
      [sim |-> self, ret |-> Panic] }

(* what main.rs reads of its Simulation: the size of the lattice, and the
   time and step that Simulation::step updates; it never looks at the cells,
   the matrices or the constraints *)
AppSimulation(sz, t, n) == [lattice |-> [size |-> sz], time |-> t, step |-> n]

(* variant: "[" without the floor of 0.001 *)
decrease_timestep_unclamped(dt) == Scale(dt, 9, 10)

(* KeyCode::Char('[') and KeyCode::Char(']') *)
decrease_timestep(dt) == Max(Scale(dt, 9, 10), DT_MIN)
increase_timestep(dt) == Min(Scale(dt, 11, 10), DT_MAX)

(* the App struct literal of App::new *)
App(simulation, dt) ==
    [simulation |-> simulation,
     is_running |-> TRUE,
     dt |-> dt,
     target_fps |-> 30,
     current_z_slice |-> AppDim \div 2,
     current_variable |-> 0,
     energy_history |-> << >>,
     max_history |-> MaxHistory]

(* an entry of energy_history: the placeholder 0.0 that step_simulation
   pushes, tagged with the number of the step that pushed it; the values, all
   0.0, cannot tell which entry a trim removed *)
HistoryEntry(total_energy, n) == [energy |-> total_energy, step |-> n]

(* Vec::remove(index), as step_simulation calls it *)
remove(v, at) ==
    [i \in 1..(Len(v) - 1) |-> IF i <= at THEN v[i] ELSE v[i + 1]]

(* variant: the history is never trimmed *)
step_simulation_untrimmed(self, r) ==
    IF r.ret = Panic THEN [app |-> self, ret |-> Panic]
    ELSE IF r.ret.tag = "Err"
    THEN [app |-> [self EXCEPT !.simulation = r.sim], ret |-> Unit]
    ELSE LET total_energy == 0
             pushed == Append(self.energy_history,
                              HistoryEntry(total_energy, r.sim.step))
         IN  [app |-> [self EXCEPT !.simulation = r.sim,
                                   !.energy_history = pushed],
              ret |-> Unit]

(* step_simulation; r is the outcome of self.simulation.step(self.dt, false) *)
step_simulation(self, r) ==
    IF r.ret = Panic THEN [app |-> self, ret |-> Panic]
    ELSE IF r.ret.tag = "Err"
    THEN [app |-> [self EXCEPT !.simulation = r.sim], ret |-> Unit]
    ELSE LET total_energy == 0
             pushed == Append(self.energy_history,
                              HistoryEntry(total_energy, r.sim.step))
             trimmed == IF Len(pushed) > self.max_history
                        THEN remove(pushed, 0) ELSE pushed
         IN  [app |-> [self EXCEPT !.simulation = r.sim,
                                   !.energy_history = trimmed],
              ret |-> Unit]

(* variant: the single step is not guarded by the pause flag *)
handle_key_s_unguarded(self, r) ==
    [app |-> step_simulation(self, r).app, steps |-> 1,
     ret |-> IF step_simulation(self, r).ret = Panic THEN Panic ELSE Returned(TRUE)]

(* KeyCode::Char('s') *)
handle_key_s(self, r) ==
    IF ~self.is_running
    THEN [app |-> step_simulation(self, r).app, steps |-> 1,
          ret |-> IF step_simulation(self, r).ret = Panic THEN Panic ELSE Returned(TRUE)]
    ELSE [app |-> self, steps |-> 0, ret |-> Returned(TRUE)]

(* variant: the slice moves up without the clamp at the top *)
handle_key_up_unclamped(self) ==
    [app |-> [self EXCEPT !.current_z_slice = self.current_z_slice + 1],
     steps |-> 0, ret |-> Returned(TRUE)]

(* KeyCode::Up; sz - 1 underflows for a lattice without slices, which
   App::new never builds: a build with overflow checks panics there *)
handle_key_up(self) ==
    LET sz == size(self.simulation.lattice)[3] IN
    IF sz = 0 THEN [app |-> self, steps |-> 0, ret |-> Panic]
    ELSE [app |-> [self EXCEPT !.current_z_slice =
                                  Min(self.current_z_slice + 1, sz - 1)],
          steps |-> 0, ret |-> Returned(TRUE)]

(* handle_key; steps counts the Simulation::step calls it made *)
handle_key(self, key, r) ==
    CASE key = "q" -> [app |-> self, steps |-> 0, ret |-> Returned(FALSE)]
      [] key = " " -> [app |-> [self EXCEPT !.is_running = ~self.is_running],
                       steps |-> 0, ret |-> Returned(TRUE)]
      [] key = "s" -> handle_key_s(self, r)
      [] key = "r" -> [app |-> self, steps |-> 0, ret |-> Returned(TRUE)]
      [] key = "[" -> [app |-> [self EXCEPT !.dt = decrease_timestep(self.dt)],
                       steps |-> 0, ret |-> Returned(TRUE)]
      [] key = "]" -> [app |-> [self EXCEPT !.dt = increase_timestep(self.dt)],
                       steps |-> 0, ret |-> Returned(TRUE)]
      [] key = "Up" -> handle_key_up(self)
      [] key = "Down" ->
            [app |-> [self EXCEPT !.current_z_slice = Max(self.current_z_slice - 1, 0)],
             steps |-> 0, ret |-> Returned(TRUE)]
      [] key = "Left" ->
            [app |-> [self EXCEPT !.current_variable =
                                     (self.current_variable + VARS - 1) % VARS],
             steps |-> 0, ret |-> Returned(TRUE)]
      [] key = "Right" ->
            [app |-> [self EXCEPT !.current_variable =
                                     (self.current_variable + 1) % VARS],
             steps |-> 0, ret |-> Returned(TRUE)]
      [] OTHER -> [app |-> self, steps |-> 0, ret |-> Returned(TRUE)]

(* update; elapsed is self.last_step_time.elapsed(); restart tells whether
   last_step_time was set to now *)
update(self, elapsed, r) ==
    IF self.is_running /\ elapsed >= self.dt
    THEN [app |-> step_simulation(self, r).app, steps |-> 1,
          restart |-> step_simulation(self, r).ret # Panic,
          ret |-> step_simulation(self, r).ret]
    ELSE [app |-> self, steps |-> 0, restart |-> FALSE, ret |-> Unit]

(* Inputs *)
Keys == { "q", " ", "s", "r", "[", "]", "Up", "Down", "Left", "Right", "x" }
DtKeys == { "[", "]" }
(* dt after k presses of "[" (down) or "]" *)
RECURSIVE Pressed(_, _, _)
Pressed(dt, down, k) ==
    IF k = 0 THEN dt
    ELSE Pressed(IF down THEN decrease_timestep(dt) ELSE increase_timestep(dt),
                 down, k - 1)
(* dt at construction, and one press away from either end of its range *)
AppDts == { DT_NEW, Pressed(DT_NEW, TRUE, 21), Pressed(DT_NEW, FALSE, 24) }
WaitQuantum == 5000
MaxElapsed == DT_MAX

VARIABLES
    app,          \* the App
    since_step,   \* wall time since last_step_time, saturating at MaxElapsed
    acall,        \* the last step of the event loop: handler, key, step calls
                  \* and the outcome of Simulation::step when it was called
    astatus,      \* "run", "quit" (handle_key returned false), "panicked"
    dt_presses    \* "[" and "]" presses so far

avars == << app, since_step, acall, astatus, dt_presses >>

AIdle ==
    /\ app = None
    /\ since_step = 0
    /\ acall = [op |-> "start"]
    /\ astatus = "quit"
    /\ dt_presses = 0

AInit ==
    /\ \E dt \in AppDts :
          app = App(AppSimulation(<< AppDim, AppDim, AppDim >>, 0, 0), dt)
    /\ since_step = 0
    /\ acall = [op |-> "start"]
    /\ astatus = "run"
    /\ dt_presses = 0

(* the outcomes to consider for a handler: those of Simulation::step when
   the handler calls it (calls > 0), none to choose from when it does not *)
NoCall == [sim |-> app.simulation, ret |-> Ok]
Outcomes(calls) ==
    IF calls > 0 THEN step_documented(app.simulation, app.dt, FALSE) ELSE { NoCall }

(* run_app: a key event is read and handled *)
HandleKey(key) ==
    /\ astatus = "run"
    /\ key \in DtKeys => dt_presses < MaxDtPresses
    /\ \E r \in Outcomes(handle_key(app, key, NoCall).steps) :
          LET h == handle_key(app, key, r)
          IN  /\ h.steps > 0 => app.simulation.step < MaxAppSteps
              /\ app' = h.app
              /\ acall' = [op |-> "handle_key", key |-> key, steps |-> h.steps,
                           outcome |-> IF h.steps > 0 THEN r.ret ELSE None,
                           ret |-> h.ret]
              /\ astatus' = IF h.ret = Panic THEN "panicked"
                            ELSE IF h.ret = Returned(FALSE) THEN "quit" ELSE "run"
    /\ dt_presses' = IF key \in DtKeys THEN dt_presses + 1 ELSE dt_presses
    /\ UNCHANGED since_step

(* run_app: app.update() *)
Update ==
    /\ astatus = "run"
    /\ \E r \in Outcomes(update(app, since_step, NoCall).steps) :
          LET u == update(app, since_step, r)
          IN  /\ u.steps > 0 => app.simulation.step < MaxAppSteps
              /\ app' = u.app
              /\ since_step' = IF u.restart THEN 0 ELSE since_step
              /\ acall' = [op |-> "update", key |-> "", steps |-> u.steps,
                           outcome |-> IF u.steps > 0 THEN r.ret ELSE None,
                           ret |-> u.ret]
              /\ astatus' = IF u.ret = Panic THEN "panicked" ELSE "run"
    /\ UNCHANGED dt_presses

(* wall time passes between two iterations of the event loop *)
Wait ==
    /\ astatus = "run"
    /\ since_step < MaxElapsed
    /\ since_step' = Min(since_step + WaitQuantum, MaxElapsed)
    /\ acall' = [op |-> "wait", key |-> "", steps |-> 0, outcome |-> None,
                 ret |-> Unit]
    /\ UNCHANGED << app, astatus, dt_presses >>

----------------------------------------------------------------------------
(* Specifications *)

vars == << lattice, call, pair, exchanges, panicked, tl, tick, hist,
           sim, pcell, rmatrix, scall, strace, spanicked,
           app, since_step, acall, astatus, dt_presses >>

NoTickLattice == generate_lattice(<< 0, 0, 0 >>, 0, << >>)

(* the parts of the program a specification does not run *)
TIdle ==
    /\ tl = NoTickLattice
    /\ tick = Idle
    /\ hist = History(tl)

SNone ==
    /\ sim = None
    /\ pcell = None
    /\ rmatrix = None
    /\ scall = [op |-> "start"]
    /\ strace = << >>
    /\ spanicked = FALSE

Init == LInit /\ TIdle /\ SNone /\ AIdle

Next ==
    \/ \E sz \in Sizes : New(sz) /\ UNCHANGED << tvars, svars, avars >>
    \/ \E c \in CoordArgs : Index(c) /\ UNCHANGED << tvars, svars, avars >>
    \/ \E i \in IndexArgs : Coord(i) /\ UNCHANGED << tvars, svars, avars >>
    \/ \E c \in CoordArgs : Neighbors6(c) /\ UNCHANGED << tvars, svars, avars >>
    \/ \E ea \in Energies, eb \in Energies, c \in Couplings, dt \in Dts :
          ExchangeExact(ea, eb, 0, 1, c, dt) /\ UNCHANGED << tvars, svars, avars >>
    \/ \E c \in Couplings, dt \in Dts : DistributeToNeighbors(c, dt) /\ UNCHANGED << tvars, svars, avars >>

Spec == Init /\ [][Next]_vars

TickInit == LInit /\ TInit /\ SNone /\ AIdle

TickNext ==
    \/ \E seed \in Seeds : TickStart(seed) /\ UNCHANGED << lvars, svars, avars >>
    \/ \E idx \in 0..(Len(tl.cells) - 1) : ComputeFlux(idx) /\ UNCHANGED << lvars, svars, avars >>
    \/ \E idx \in 0..(Len(tl.cells) - 1) : SeedOverflowPanic(idx) /\ UNCHANGED << lvars, svars, avars >>
    \/ ApplyDeltas /\ UNCHANGED << lvars, svars, avars >>

TickSpec == TickInit /\ [][TickNext]_vars

(* simulate_tick, tick after tick *)
RunInit == LInit /\ RInit /\ SNone /\ AIdle

RunNext == \E seed \in Seeds : SimulateTick(seed) /\ UNCHANGED << lvars, svars, avars >>

RunSpec == RunInit /\ [][RunNext]_vars

(* energy.rs, redistribution.rs, evolution.rs *)
SimInit == LInit /\ TIdle /\ SInit /\ AIdle

SimNext ==
    \/ \E v \in 0..(VARS - 1), f \in 0..(FORCES - 1), en \in Energies,
          cs \in ConstraintSets :
          ProjectEnergy(v, f, en, cs) /\ UNCHANGED << lvars, tvars, avars >>
    \/ NewZero /\ UNCHANGED << lvars, tvars, avars >>
    \/ \E from \in 0..(N_FLATTENED - 1), to \in 0..(N_FLATTENED - 1), rate \in Rates :
          SetOscillation(from, to, rate) /\ UNCHANGED << lvars, tvars, avars >>
    \/ \E dt \in Dts, a \in BOOLEAN : Step(dt, a) /\ UNCHANGED << lvars, tvars, avars >>
    \/ \E dt \in Dts : StepRedistribution(dt) /\ UNCHANGED << lvars, tvars, avars >>
    \/ \E dt \in Dts : StepTransport(dt) /\ UNCHANGED << lvars, tvars, avars >>
    \/ \E t_end \in TEnds, dt \in Dts :
          EvolveUntil(t_end, dt) /\ UNCHANGED << lvars, tvars, avars >>

SimSpec == SimInit /\ [][SimNext]_vars

(* main.rs *)
AppInit == LInit /\ TIdle /\ SNone /\ AInit

AppNext ==
    \/ \E key \in Keys : HandleKey(key) /\ UNCHANGED << lvars, tvars, svars >>
    \/ Update /\ UNCHANGED << lvars, tvars, svars >>
    \/ Wait /\ UNCHANGED << lvars, tvars, svars >>

AppSpec == AppInit /\ [][AppNext]_vars

----------------------------------------------------------------------------
(* Properties of lattice.rs *)

CellCount == Len(lattice.val.cells)
SeqToSet(q) == { q[k] : k \in DOMAIN q }
AxisDistance(a, b) ==
    (IF a.x > b.x THEN a.x - b.x ELSE b.x - a.x) +
    (IF a.y > b.y THEN a.y - b.y ELSE b.y - a.y) +
    (IF a.z > b.z THEN a.z - b.z ELSE b.z - a.z)

(* C1: index and coord are mutual inverses: for every in-bounds coordinate c,
   index(c) is a value i with coord(i) = c, and for every index i below the
   number of cells, coord(i) is a value c with index(c) = i. *)
C1_IndexCoordInverse ==
    /\ (call.op = "index" /\ in_bounds(lattice.val, call.arg)) =>
          /\ IsSome(call.ret)
          /\ coord(lattice.val, call.ret.val) = Some(call.arg)
    /\ (call.op = "coord" /\ call.arg < CellCount) =>
          /\ IsSome(call.ret)
          /\ index(lattice.val, call.ret.val) = Some(call.arg)

(* C2: for every in-bounds coordinate, index returns x + y*nx + z*nx*ny,
   which is smaller than the number of cells. *)
C2_IndexRowMajor ==
    (call.op = "index" /\ in_bounds(lattice.val, call.arg)) =>
        /\ call.ret = Some(call.arg.x + call.arg.y * lattice.val.size[1]
                           + call.arg.z * lattice.val.size[1] * lattice.val.size[2])
        /\ call.ret.val < CellCount

(* C3: index returns None for every coordinate outside the lattice bounds. *)
C3_IndexNoneOutOfBounds ==
    (call.op = "index" /\ ~in_bounds(lattice.val, call.arg)) => call.ret = None

(* C4: coord returns None for every index >= nx*ny*nz, and a coordinate it
   returns is in bounds. *)
C4_CoordNoneOutOfRange ==
    call.op = "coord" =>
        /\ call.arg >= CellCount => call.ret = None
        /\ IsSome(call.ret) => in_bounds(lattice.val, call.ret.val)

(* C5: Lattice::new(size) fails exactly when size.x*size.y*size.z overflows
   the widened index type; otherwise the lattice has that size and exactly
   size.x*size.y*size.z cells, all with zero energy; the number of cells of a
   lattice never changes afterwards. *)
C5_NewState ==
    /\ call.op = "new" =>
          /\ call.ret = None <=>
                call.arg[1] * call.arg[2] * call.arg[3] > U128_MAX
          /\ IsSome(call.ret) =>
                /\ size(call.ret.val) = call.arg
                /\ Len(call.ret.val.cells) = call.arg[1] * call.arg[2] * call.arg[3]
                /\ \A k \in DOMAIN call.ret.val.cells :
                      \A i \in 0..(VARS - 1), f \in 0..(FORCES - 1) :
                         call.ret.val.cells[k].e[i][f] = 0
                /\ lattice = call.ret
    /\ IsSome(lattice) =>
          CellCount = lattice.val.size[1] * lattice.val.size[2] * lattice.val.size[3]
C5_NewStep ==
    (IsSome(lattice) /\ IsSome(lattice')) =>
        Len(lattice'.val.cells) = Len(lattice.val.cells)
C5_NewAllocatesProduct == [] C5_NewState /\ [][C5_NewStep]_vars
C5_Witness ==
    /\ IsSome(lattice)
    /\ lattice.val.size = << 2, 1, 2 >>
    /\ CellCount = 4
    /\ call.op = "neighbors_6"

(* C6: for an in-bounds coordinate c, neighbors_6(c) lists at most 6
   coordinates, each one step from c along one axis, and each in bounds. *)
C6_NeighborsInBounds ==
    (call.op = "neighbors_6" /\ in_bounds(lattice.val, call.arg) /\ IsSome(call.ret)) =>
        /\ Len(call.ret.val) <= 6
        /\ \A c \in SeqToSet(call.ret.val) :
              /\ AxisDistance(c, call.arg) = 1
              /\ in_bounds(lattice.val, c)

(* C7: on a 2x2x2 lattice the neighbor query of the corner cell (0,0,0)
   yields exactly its three face-neighbors (1,0,0), (0,1,0), (0,0,1), and one
   distribute_to_neighbors call with coupling 0.1 and dt = 1 completes,
   keeping the global total. *)
C7_CornerScenario ==
    /\ (/\ call.op = "neighbors_6"
        /\ lattice.val.size = << 2, 2, 2 >>
        /\ call.arg = LatticeCoord(0, 0, 0)) =>
          /\ IsSome(call.ret)
          /\ SeqToSet(call.ret.val) =
                { LatticeCoord(1, 0, 0), LatticeCoord(0, 1, 0), LatticeCoord(0, 0, 1) }
    /\ (/\ call.op = "distribute_to_neighbors"
        /\ lattice.val.size = << 2, 2, 2 >>
        /\ call.arg = [coupling |-> 1, dt |-> 10]) =>
          call.ret # Panic

(* C9: exchange_exact returns with E_a + E_b at the channel unchanged, with
   neither energy negative, and with every other channel of both cells as it
   was. *)
C9_ExchangeConserves ==
    call.op = "exchange_exact" =>
        LET v == call.arg.var_i
            f == call.arg.force_f
        IN  /\ call.ret # Panic
            /\ pair[1].e[v][f] + pair[2].e[v][f] =
                  call.arg.cell_a.e[v][f] + call.arg.cell_b.e[v][f]
            /\ pair[1].e[v][f] >= 0
            /\ pair[2].e[v][f] >= 0
            /\ \A i \in 0..(VARS - 1), g \in 0..(FORCES - 1) :
                  (i # v \/ g # f) =>
                     /\ pair[1].e[i][g] = call.arg.cell_a.e[i][g]
                     /\ pair[2].e[i][g] = call.arg.cell_b.e[i][g]

(* C10: one distribute_to_neighbors call exchanges every unordered pair of
   neighboring cells exactly once per channel. *)
C10_EachPairOnce ==
    call.op = "distribute_to_neighbors" =>
        \A a \in CoordArgs, b \in CoordArgs :
            (/\ in_bounds(lattice.val, a) /\ in_bounds(lattice.val, b)
             /\ AxisDistance(a, b) = 1) =>
                \A i \in 0..(VARS - 1), f \in 0..(FORCES - 1) :
                    Cardinality({ k \in DOMAIN exchanges :
                        /\ { exchanges[k].a, exchanges[k].b } = { a, b }
                        /\ exchanges[k].var_i = i
                        /\ exchanges[k].force_f = f }) = 1

----------------------------------------------------------------------------
(* Properties of simulate_tick *)

(* C8: the sum of cell.total_energy over all cells is the same after a tick
   as before it, and so stays at its initial value after any number of
   ticks. *)
C8_GlobalEnergyConserved ==
    /\ global_energy(tl) = hist.initial
    /\ tick.phase = "idle" => global_energy(tl) = hist.before
C8_Witness ==
    /\ tick.phase = "idle"
    /\ hist.ticks = MaxTicks
    /\ \E j \in DOMAIN tl.cells, k \in DOMAIN tl.cells :
          tl.cells[j].total_energy > tl.cells[k].total_energy

----------------------------------------------------------------------------
(* Properties of energy.rs, redistribution.rs, evolution.rs *)

Cells(self) == 1..Len(self.lattice.cells)
Positions(t, op, k) == { p \in DOMAIN t : t[p].op = op /\ t[p].cell = k }
TransportPositions(t) == { p \in DOMAIN t : t[p].op = "distribute_to_neighbors" }

(* C11: project_energy is idempotent: a call returns, and applying it again
   to the cell it produced, under the same constraints, changes nothing. *)
C11_ProjectIdempotent ==
    scall.op = "project_energy" =>
        /\ scall.ret # Panic
        /\ project_energy(pcell, scall.arg.constraints).cell = pcell

(* C12: within one Simulation::step every cell is evolved by the
   redistribution operator and then projected, and only then does the
   transport phase start: the step runs distribute_to_neighbors, and every
   cell's evolve and project come before it, in that order. *)
C12_ProjectedBeforeTransport ==
    scall.op = "step" =>
        /\ TransportPositions(strace) # {}
        /\ \A k \in Cells(scall.before) :
              \E pe \in Positions(strace, "evolve", k),
                 pp \in Positions(strace, "project_energy", k) :
                 /\ pe < pp
                 /\ \A pt \in TransportPositions(strace) : pp < pt

(* C13: every successful step(dt, _) advances time by exactly dt and the step
   counter by exactly 1, a step call without a failing operation is
   successful, and nothing else changes time or step. *)
C13_StepAdvancesClock ==
    /\ scall.op = "step" /\ (\A p \in DOMAIN strace : ~strace[p].failed) =>
          /\ scall.ret = Ok
          /\ sim.time = scall.before.time + scall.arg.dt
          /\ sim.step = scall.before.step + 1
    /\ scall.op \notin { "step", "evolve_until" } =>
          sim.time = 0 /\ sim.step = 0

(* C14: step returns an outcome, Ok or an error, and the error whenever a
   per-cell operation fails; the failing operation is the last one the step
   performs (the remaining phases are not run) and the lattice is left as the
   operations before it made it (no rollback). *)
C14_StepErrorNoRollback ==
    scall.op = "step" =>
        /\ scall.ret.tag \in { "Ok", "Err" }
        /\ \A p \in DOMAIN strace :
              strace[p].failed => scall.ret.tag = "Err" /\ p = Len(strace)
        /\ scall.ret.tag = "Err" =>
              /\ strace # << >> /\ strace[Len(strace)].failed
              /\ sim.time = scall.before.time /\ sim.step = scall.before.step

(* C15: evolve_until(t_end, dt, callback) steps while time < t_end and
   returns; the callback runs exactly once after each successful step; the
   first failing step ends the call with its error; with time >= t_end on
   entry no step is made. *)
StepsOf(t) == { p \in DOMAIN t : t[p].op = "step" }
CallbacksOf(t) == { p \in DOMAIN t : t[p].op = "callback" }
C15_EvolveUntil ==
    scall.op = "evolve_until" =>
        /\ scall.ret.tag \in { "Ok", "Err" }
        /\ scall.before.time >= scall.arg.t_end => strace = << >> /\ scall.ret = Ok
        /\ scall.ret = Ok => sim.time >= scall.arg.t_end
        /\ \A p \in StepsOf(strace) :
              IF strace[p].failed
              THEN p = Len(strace) /\ scall.ret.tag = "Err"
              ELSE p + 1 \in CallbacksOf(strace)
        /\ \A p \in CallbacksOf(strace) :
              p - 1 \in StepsOf(strace) /\ ~strace[p - 1].failed

(* C16: a matrix built from the zero matrix by set_oscillation calls is
   exactly antisymmetric after every call: the call returns and
   a[i][j] = -a[j][i] for all i, j, the diagonal and from = to included. *)
C16_Antisymmetric ==
    scall.op = "set_oscillation" =>
        /\ scall.ret # Panic
        /\ \A i \in 0..(N_FLATTENED - 1), j \in 0..(N_FLATTENED - 1) :
              rmatrix.a[i][j] = -rmatrix.a[j][i]

(* C17: simulate_tick is reproducible whatever the scheduling of the workers:
   while they run the lattice is the one the tick was entered with, and the
   lattice the tick returns is the one outcome of simulate_tick on that
   lattice and seed, in whatever order the workers finished; a tick that
   panics leaves the lattice as it was. *)
C17_TickReproducible ==
    /\ tick.phase \in { "flux", "panicked" } => tl = hist.pre
    /\ tick.phase = "idle" /\ hist.ticks > 0 =>
          /\ tl \in simulate_tick(hist.pre, hist.seed)
          /\ \A out \in simulate_tick(hist.pre, hist.seed) : out # Panic => out = tl
(* a tick whose workers finished out of index order has changed the lattice *)
C17_Witness ==
    /\ tick.phase = "idle"
    /\ hist.ticks > 0
    /\ Len(hist.order) > 1
    /\ hist.order[1] > hist.order[2]
    /\ tl # hist.pre

(* C18: starting from generate_lattice with total_energy >= 0, every cell's
   total_energy is >= 0 after any number of simulate_tick calls. *)
C18_EnergyNonNegative ==
    \A k \in DOMAIN tl.cells : tl.cells[k].total_energy >= 0

----------------------------------------------------------------------------
(* Properties of the dashboard *)

(* C19: pressing r resets the simulation: after handle_key('r') the step
   counter and the time of the simulation are back at their initial values,
   0 and 0, whatever steps came before. *)
C19_ResetRestoresStart ==
    acall.op = "handle_key" /\ acall.key = "r" =>
        app.simulation.step = 0 /\ app.simulation.time = 0

(* C20: Space toggles is_running (so two presses restore it) and steps
   nothing; while paused update() never calls Simulation::step and each s
   press calls it exactly once; while running s calls it not at all and
   update() calls it at most once, and only when at least dt of wall time has
   passed since last_step_time. *)
C20_Step ==
    LET paused == ~app.is_running IN
    /\ acall'.op = "handle_key" /\ acall'.key = " " =>
          /\ app' = [app EXCEPT !.is_running = ~app.is_running]
          /\ acall'.steps = 0
    /\ acall'.op = "update" /\ paused =>
          acall'.steps = 0 /\ app' = app
    /\ acall'.op = "handle_key" /\ acall'.key = "s" /\ paused =>
          acall'.steps = 1
    /\ acall'.op = "handle_key" /\ acall'.key = "s" /\ ~paused =>
          acall'.steps = 0 /\ app' = app
    /\ acall'.op = "update" /\ ~paused =>
          /\ acall'.steps <= 1
          /\ acall'.steps = 1 <=> since_step >= app.dt
          /\ acall'.steps = 0 => app' = app
C20_PauseSemantics == [][C20_Step]_vars
(* a single step made with s while paused, after Space has paused the run *)
C20_Witness ==
    /\ acall.op = "handle_key"
    /\ acall.key = "s"
    /\ acall.steps = 1
    /\ ~app.is_running

(* C21: after any sequence of key presses current_z_slice is within
   0 ..= size.2 - 1 of the simulation lattice and current_variable within
   0 ..= VARS - 1; Up moves one slice up and saturates at the top slice, Down
   moves one down and saturates at 0, Left and Right are cyclic moves that
   undo each other, and no other key moves either selection. *)
TopSlice == size(app.simulation.lattice)[3] - 1
C21_State ==
    /\ app.current_z_slice \in 0..TopSlice
    /\ app.current_variable \in 0..(VARS - 1)
    /\ handle_key(handle_key(app, "Left", NoCall).app, "Right", NoCall).app = app
    /\ handle_key(handle_key(app, "Right", NoCall).app, "Left", NoCall).app = app
C21_Step ==
    LET z == app.current_z_slice
        v == app.current_variable
        key == IF acall'.op = "handle_key" THEN acall'.key ELSE ""
    IN  /\ app'.current_z_slice =
              CASE key = "Up" -> IF z = TopSlice THEN z ELSE z + 1
                [] key = "Down" -> IF z = 0 THEN 0 ELSE z - 1
                [] OTHER -> z
        /\ app'.current_variable =
              CASE key = "Right" -> IF v = VARS - 1 THEN 0 ELSE v + 1
                [] key = "Left" -> IF v = 0 THEN VARS - 1 ELSE v - 1
                [] OTHER -> v
C21_SelectionInRange == [] C21_State /\ [][C21_Step]_vars
(* Left has wrapped from variable 0 to the last one, on the top slice *)
C21_Witness ==
    /\ acall.op = "handle_key"
    /\ acall.key = "Left"
    /\ app.current_variable = VARS - 1
    /\ app.current_z_slice = TopSlice

(* C23: after any sequence of "[" and "]" presses starting from dt = 0.01
   the timestep stays within [0.001, 0.1]: "[" multiplies it by 0.9 but never
   takes it below 0.001, "]" multiplies it by 1.1 but never takes it above
   0.1, and no other key, and no other step of the event loop, changes dt. *)
C23_State == app.dt \in DT_MIN..DT_MAX
C23_Step ==
    LET key == IF acall'.op = "handle_key" THEN acall'.key ELSE ""
        down == (app.dt * 9) \div 10
        up == (app.dt * 11) \div 10
    IN  app'.dt = CASE key = "[" -> IF down < DT_MIN THEN DT_MIN ELSE down
                    [] key = "]" -> IF up > DT_MAX THEN DT_MAX ELSE up
                    [] OTHER -> app.dt
C23_TimestepInRange == [] C23_State /\ [][C23_Step]_vars
(* "[" was pressed and the product fell below 0.001: dt sits on the floor *)
C23_Witness ==
    /\ acall.op = "handle_key"
    /\ acall.key = "["
    /\ app.dt = DT_MIN

(* C22: energy_history never holds more than max_history entries after any
   step_simulation call: a successful Simulation::step appends one entry at
   the end and, when the length would exceed max_history, the oldest entry
   (the first) is dropped; a failing Simulation::step appends nothing and
   leaves the history unchanged. The history therefore holds the entries of
   the last successful steps, oldest first. *)
C22_State ==
    LET h == app.energy_history
        n == app.simulation.step
    IN  /\ Len(h) <= app.max_history
        /\ Len(h) = Min(n, app.max_history)
        /\ \A i \in 1..Len(h) : h[i] = HistoryEntry(0, n - Len(h) + i)
C22_Step ==
    LET h == app.energy_history
        entry == HistoryEntry(0, app.simulation.step + 1)
        stepped == acall'.op \in { "handle_key", "update" } /\ acall'.steps > 0
    IN  /\ stepped /\ acall'.outcome = Ok =>
              /\ app'.simulation.step = app.simulation.step + 1
              /\ app'.energy_history =
                    IF Len(h) + 1 > app.max_history
                    THEN Append(Tail(h), entry) ELSE Append(h, entry)
        /\ stepped /\ acall'.outcome # Ok =>
              /\ acall'.outcome = Panic \/ acall'.outcome.tag = "Err"
              /\ app'.energy_history = h
        /\ ~stepped => app'.energy_history = h
C22_HistoryBounded == [] C22_State /\ [][C22_Step]_vars
(* the history is full and the entry of the first step has been dropped *)
C22_Witness ==
    /\ acall.op = "update"
    /\ acall.outcome = Ok
    /\ Len(app.energy_history) = app.max_history
    /\ app.simulation.step = app.max_history + 1
    /\ app.energy_history[1].step = 2

(* C24: simulate_tick changes only the total_energy field of cells: no step
   of a tick changes the lattice size, the number of cells, or any cell's
   groups (their kind, total_energy, subgroups and packets), and a cell's
   total_energy changes only when the deltas are applied; the strong and weak
   forces act on a clone that is discarded. *)
GroupsOf(self) == [k \in DOMAIN self.cells |-> self.cells[k].groups]
C24_State ==
    /\ tl.size = hist.pre.size
    /\ Len(tl.cells) = Len(hist.pre.cells)
    /\ GroupsOf(tl) = GroupsOf(hist.pre)
    /\ tick.phase # "idle" => tl = hist.pre
C24_Step ==
    /\ tl'.size = tl.size
    /\ Len(tl'.cells) = Len(tl.cells)
    /\ GroupsOf(tl') = GroupsOf(tl)
C24_OnlyTotalEnergy == [] C24_State /\ [][C24_Step]_vars
(* a tick has completed and moved energy between cells, and the forces
   would have changed the packets of a cell: the strong force alone, and the
   weak force after it whatever its factors *)
C24_Witness ==
    /\ tick.phase = "idle"
    /\ hist.ticks > 0
    /\ \E k \in DOMAIN tl.cells : tl.cells[k].total_energy # hist.pre.cells[k].total_energy
    /\ \E idx \in 0..(Len(tl.cells) - 1) :
          /\ strong_force(CellAt(hist.pre, idx)).groups # CellAt(hist.pre, idx).groups
          /\ \A fs \in [1..2 -> WeakFactors] :
                cell_clone(hist.pre, idx, fs).groups # CellAt(tl, idx).groups

(* C25: in simulate_tick every flux entry targets a valid cell: for every
   cell index idx below nx*ny*nz the decomposition x = idx % sx,
   y = (idx / sx) % sy, z = idx / (sx*sy) lies in the lattice and satisfies
   Lattice::index(x, y, z) = idx; a neighbour is used only when its signed
   coordinates are in bounds, so it is the cell one step along one axis and
   never a cell reached by wrapping around; and every index written to the
   delta array is below the number of cells, so no index ever panics. *)
Abs(a) == IF a < 0 THEN -a ELSE a
(* cells a and b are one step apart along x (same row), y (same plane) or z *)
FaceNeighbours(self, a, b) ==
    LET row == self.size[1]
        plane == self.size[1] * self.size[2]
    IN  \/ Abs(a - b) = 1 /\ a \div row = b \div row
        \/ Abs(a - b) = row /\ a \div plane = b \div plane
        \/ Abs(a - b) = plane
(* the cells a flux entry of cell idx may target: itself and its face
   neighbours inside the lattice *)
Allowed(self, idx) ==
    { k \in 0..(Len(self.cells) - 1) : k = idx \/ FaceNeighbours(self, idx, k) }
C25_FluxTargetsValid ==
    /\ Len(tl.cells) = tl.size[1] * tl.size[2] * tl.size[3]
    /\ \A idx \in 0..(Len(tl.cells) - 1) :
          /\ LET p == tick_xyz(tl, idx)
             IN  /\ p[1] \in 0..(tl.size[1] - 1)
                 /\ p[2] \in 0..(tl.size[2] - 1)
                 /\ p[3] \in 0..(tl.size[3] - 1)
                 /\ lib_in_bounds(tl, p[1], p[2], p[3])
                 /\ lib_index(tl, p[1], p[2], p[3]) = idx
          /\ closure_indices(tl, idx) \subseteq Allowed(tl, idx)
    /\ \A idx \in DOMAIN tick.fluxes :
          IsSome(tick.fluxes[idx]) =>
             { tick.fluxes[idx].val[j][1] : j \in DOMAIN tick.fluxes[idx].val }
                \subseteq Allowed(tl, idx)
    /\ tick.phase = "panicked" => tick.seed + (Len(tl.cells) - 1) > U64_MAX
(* every flux list of a 2x2x1 lattice is collected: each cell has dropped the
   directions that leave the lattice and has sent energy to a neighbour *)
C25_Witness ==
    /\ tick.phase = "flux"
    /\ tl.size = << 2, 2, 1 >>
    /\ \A idx \in DOMAIN tick.fluxes :
          /\ IsSome(tick.fluxes[idx])
          /\ Cardinality(closure_indices(tl, idx)) = 3
          /\ \E j \in DOMAIN tick.fluxes[idx].val :
                /\ tick.fluxes[idx].val[j][1] # idx
                /\ tick.fluxes[idx].val[j][2] > 0

====
